---- MODULE Spec2Model ----
(***************************************************************************)
(* Model of social_distance_posenet.py: the proximity analysis             *)
(* (find_keypoint, person_center, person_height, distance, analyze_poses)  *)
(* and the script around it (single-image mode, streaming mode).           *)
(*                                                                         *)
(* Numbers.  Pixel coordinates are integers.  A center is kept as the      *)
(* exact fraction the code computes, [xn, yn, d] standing for the point    *)
(* (xn/d, yn/d).  A distance is kept as [sq, den] standing for             *)
(* sqrt(sq)/den, and a threshold or an average height as <<n, d>> standing *)
(* for n/d, so that every comparison of the code is decided exactly.       *)
(***************************************************************************)
EXTENDS Integers, Sequences, FiniteSets, TLC

VARIABLES
    args,           \* parsed command line: image, input, distance, rel_threshold
    pc,             \* position of the script
    img,            \* last value returned by input_stream.Capture() / loadImage
    poses,          \* last value returned by net.Process
    any_violence,   \* results of the last analyze_poses call that returned
    centers,
    heights,
    pairs,          \* the pair lines analyze_poses wrote, in order
    err,            \* the uncaught exception, "none" when there is none
    exit_code,      \* process exit status, -1 while running
    streams,        \* input_stream, display_out, record_out
    frames,         \* net.Process calls so far, counted up to MaxFrames
    rendered,       \* loop iterations that rendered, counted up to MaxFrames
    call,           \* the function under test and its argument (AnalyzerSpec)
    ret             \* value returned by a direct person_center/person_height call

vars == <<args, pc, img, poses, any_violence, centers, heights, pairs, err,
          exit_code, streams, frames, rendered, call, ret>>

(* ----------------------------- bounds ---------------------------------- *)

\* people in a pose list handed to analyze_poses by the test harness
MaxPeople == 3

\* people the detector reports per frame in the script
MaxDetected == 2

\* the counters frames and rendered stop counting here
MaxFrames == 2

(* --------------------------- input domains ----------------------------- *)

LEFT_HIP_ID == 11

RIGHT_HIP_ID == 12

Kp(id, x, y) == [ID |-> id, x |-> x, y |-> y]

Pose(kps) == [Keypoints |-> kps]

\* both hips and the nose; hip midpoint (1,2), mean of all (1,4/3), height 2
HipsFirst == Pose(<<Kp(LEFT_HIP_ID, 0, 2), Kp(RIGHT_HIP_ID, 2, 2), Kp(0, 1, 0)>>)

\* HipsFirst with the two hip entries in each other's place
HipsSwapped == Pose(<<Kp(RIGHT_HIP_ID, 2, 2), Kp(LEFT_HIP_ID, 0, 2), Kp(0, 1, 0)>>)

\* HipsFirst moved 3 pixels to the right; hip midpoint (4,2), height 2
HipsShifted == Pose(<<Kp(LEFT_HIP_ID, 3, 2), Kp(RIGHT_HIP_ID, 5, 2), Kp(0, 4, 0)>>)

\* the right hip was not detected; mean (1/2, 1), height 2
LeftHipOnly == Pose(<<Kp(LEFT_HIP_ID, 0, 2), Kp(0, 1, 0)>>)

\* no hip at all, nose and an ankle; mean (4,2), height 4
NoHips == Pose(<<Kp(0, 4, 0), Kp(16, 4, 4)>>)

\* a single keypoint; center (1,2), height 0
OneKeypoint == Pose(<<Kp(0, 1, 2)>>)

\* both hips on one line and nothing else; hip midpoint (4,6), height 0
FlatHips == Pose(<<Kp(LEFT_HIP_ID, 3, 6), Kp(RIGHT_HIP_ID, 5, 6)>>)

\* a pose without any keypoint
NoKeypoints == Pose(<<>>)

PoseSet ==
    {HipsFirst, HipsSwapped, HipsShifted, LeftHipOnly, NoHips, OneKeypoint,
     FlatHips, NoKeypoints}

StreamPoseSet == {HipsFirst, HipsShifted, OneKeypoint, NoKeypoints}

SeqsUpTo(S, n) == UNION {[1..m -> S] : m \in 0..n}

PoseLists == SeqsUpTo(PoseSet, MaxPeople)

DetectorOutputs == SeqsUpTo(StreamPoseSet, MaxDetected)

\* --distance, in pixels
AbsThresholds == {<<3, 1>>, <<5, 1>>}

\* --rel_threshold
RelThresholds == {<<1, 2>>, <<3, 2>>}

(* ------------------------- helper functions ---------------------------- *)

None == Kp(-1, 0, 0)

Returned(v) == [err |-> "none", val |-> v]

Raised(e, v) == [err |-> e, val |-> v]

RECURSIVE sum(_)
sum(s) == IF Len(s) = 0 THEN 0 ELSE Head(s) + sum(Tail(s))

max(s) == CHOOSE m \in {s[k] : k \in 1..Len(s)} : \A k \in 1..Len(s) : s[k] <= m

min(s) == CHOOSE m \in {s[k] : k \in 1..Len(s)} : \A k \in 1..Len(s) : m <= s[k]

RECURSIVE find_from(_, _, _)
find_from(kps, k, kp_id) ==
    IF k > Len(kps) THEN None
    ELSE IF kps[k].ID = kp_id THEN kps[k]
    ELSE find_from(kps, k + 1, kp_id)

find_keypoint_index(pose, kp_id) ==
    IF kp_id + 1 \in 1..Len(pose.Keypoints) THEN pose.Keypoints[kp_id + 1] ELSE None

find_keypoint(pose, kp_id) == find_from(pose.Keypoints, 1, kp_id)

person_center(pose) ==
    LET lh == find_keypoint(pose, LEFT_HIP_ID)
        rh == find_keypoint(pose, RIGHT_HIP_ID)
        xs == [k \in 1..Len(pose.Keypoints) |-> pose.Keypoints[k].x]
        ys == [k \in 1..Len(pose.Keypoints) |-> pose.Keypoints[k].y]
    IN  IF lh # None /\ rh # None
        THEN Returned([xn |-> lh.x + rh.x, yn |-> lh.y + rh.y, d |-> 2])
        ELSE IF Len(xs) = 0
        THEN Raised("ZeroDivisionError", [xn |-> 0, yn |-> 0, d |-> 1])
        ELSE Returned([xn |-> sum(xs), yn |-> sum(ys), d |-> Len(xs)])

person_height(pose) ==
    LET ys == [k \in 1..Len(pose.Keypoints) |-> pose.Keypoints[k].y]
    IN  IF Len(ys) = 0 THEN Raised("ValueError", 0)
        ELSE Returned(max(ys) - min(ys))

distance(c1, c2) ==
    LET dx == c1.xn * c2.d - c2.xn * c1.d
        dy == c1.yn * c2.d - c2.yn * c1.d
    IN  [sq |-> dx * dx + dy * dy, den |-> c1.d * c2.d]

avg_height_unguarded(hi, hj) == <<hi + hj, 2>>

\* (heights[i] + heights[j]) / 2.0 if heights[i] > 0 and heights[j] > 0 else 1.0
avg_height(hi, hj) == IF hi > 0 /\ hj > 0 THEN <<hi + hj, 2>> ELSE <<1, 1>>

\* d / h for a distance d and a height h = <<hn, hd>>; Python raises on h = 0
divide(d, h) ==
    IF h[1] = 0 THEN Raised("ZeroDivisionError", d)
    ELSE Returned([sq |-> d.sq * h[2] * h[2], den |-> d.den * h[1]])

less_or_equal(d, t) == t[1] >= 0 /\ d.sq * t[2] * t[2] <= t[1] * t[1] * d.den * d.den

\* d < t for a distance d >= 0 and a threshold t = <<tn, td>>, td > 0
less_than(d, t) == t[1] > 0 /\ d.sq * t[2] * t[2] < t[1] * t[1] * d.den * d.den

\* one pass of the inner loop body for the pair (i, j), indices as in the code
pair_verdict(cs, hs, i, j) ==
    LET d_abs == distance(cs[i + 1], cs[j + 1])
        avg_h == avg_height(hs[i + 1], hs[j + 1])
        d_rel == divide(d_abs, avg_h)
    IN  [err |-> d_rel.err, i |-> i, j |-> j, d_abs |-> d_abs, avg_h |-> avg_h,
         d_rel |-> d_rel.val,
         abs_flag |-> less_than(d_abs, args.distance),
         rel_flag |-> less_than(d_rel.val, args.rel_threshold)]

update_overwrite(any, v) == v.abs_flag \/ v.rel_flag

\* if abs_flag or rel_flag: any_violence = True
update_any(any, v) == IF v.abs_flag \/ v.rel_flag THEN TRUE ELSE any

first_j_self(i) == i

\* for j in range(i + 1, len(centers))
first_j(i) == i + 1

RECURSIVE pair_loop(_, _, _, _, _, _)
pair_loop(cs, hs, i, j, any, log) ==
    IF i >= Len(cs) THEN [err |-> "none", any_violence |-> any, pairs |-> log]
    ELSE IF j >= Len(cs) THEN pair_loop(cs, hs, i + 1, first_j(i + 1), any, log)
    ELSE LET v == pair_verdict(cs, hs, i, j)
         IN  IF v.err # "none"
             THEN [err |-> v.err, any_violence |-> any, pairs |-> log]
             ELSE pair_loop(cs, hs, i, j + 1, update_any(any, v), Append(log, v))

RECURSIVE person_loop(_, _, _, _)
person_loop(ps, k, cs, hs) ==
    IF k > Len(ps) THEN [err |-> "none", centers |-> cs, heights |-> hs]
    ELSE LET c == person_center(ps[k])
             h == person_height(ps[k])
         IN  IF c.err # "none" THEN [err |-> c.err, centers |-> cs, heights |-> hs]
             ELSE IF h.err # "none" THEN [err |-> h.err, centers |-> cs, heights |-> hs]
             ELSE person_loop(ps, k + 1, Append(cs, c.val), Append(hs, h.val))

\* the body of analyze_poses with the lists centers, heights starting as cs0, hs0
analyze_from(ps, cs0, hs0) ==
    IF Len(ps) = 0
    THEN [err |-> "none", any_violence |-> FALSE, centers |-> cs0, heights |-> hs0,
          pairs |-> <<>>]
    ELSE LET g == person_loop(ps, 1, cs0, hs0)
             r == pair_loop(g.centers, g.heights, 0, first_j(0), FALSE, <<>>)
         IN  IF g.err # "none"
             THEN [err |-> g.err, any_violence |-> FALSE, centers |-> g.centers,
                   heights |-> g.heights, pairs |-> <<>>]
             ELSE [err |-> r.err, any_violence |-> r.any_violence,
                   centers |-> g.centers, heights |-> g.heights, pairs |-> r.pairs]

analyze_poses_stale(ps) == analyze_from(ps, centers, heights)

\* centers = [], heights = [] at every call
analyze_poses(ps) == analyze_from(ps, <<>>, <<>>)

\* the script's call of analyze_poses(ps): on a return the three results are
\* assigned; on an exception nothing is assigned and the process dies
Analyze(ps, next) ==
    LET r == analyze_poses(ps)
    IN  IF r.err = "none"
        THEN /\ any_violence' = r.any_violence
             /\ centers' = r.centers
             /\ heights' = r.heights
             /\ pairs' = r.pairs
             /\ err' = "none"
             /\ pc' = next
             /\ exit_code' = exit_code
        ELSE /\ UNCHANGED <<any_violence, centers, heights>>
             /\ pairs' = r.pairs
             /\ err' = r.err
             /\ pc' = "raised"
             /\ exit_code' = 1

Count(n) == IF n < MaxFrames THEN n + 1 ELSE n

(* ------------------------------ script --------------------------------- *)

Unopened == [input |-> "unopened", display |-> "unopened", record |-> "unopened"]

NoCall == [fn |-> "none", k |-> 0]

LoopPcs == {"capture", "test_img", "render", "check"}

ArgSets(images, inputs) ==
    [image : images, input : inputs, output : {"display://0"},
     distance : AbsThresholds, rel_threshold : RelThresholds]

Init ==
    /\ args \in ArgSets({"", "people.jpg"}, {"", "/dev/video0"})
    /\ pc = "main"
    /\ img = "none"
    /\ poses = <<>>
    /\ any_violence = FALSE
    /\ centers = <<>>
    /\ heights = <<>>
    /\ pairs = <<>>
    /\ err = "none"
    /\ exit_code = -1
    /\ streams = Unopened
    /\ frames = 0
    /\ rendered = 0
    /\ call = NoCall
    /\ ret = 0

\* if args.image:
single_image_mode == args.image # ""

missing_input_tests_output == args.output = ""

\* if not args.input:
missing_input == args.input = ""

\* single-image mode up to the return of analyze_poses
SingleImage ==
    /\ pc = "main"
    /\ single_image_mode
    /\ img' = "frame"
    /\ frames' = Count(frames)
    /\ \E ps \in DetectorOutputs : poses' = ps /\ Analyze(ps, "save")
    /\ UNCHANGED <<args, streams, rendered, call, ret>>

\* saveImage and sys.exit(0)
SaveImage ==
    /\ pc = "save"
    /\ pc' = "exited"
    /\ exit_code' = 0
    /\ UNCHANGED <<args, img, poses, any_violence, centers, heights, pairs, err,
                   streams, frames, rendered, call, ret>>

\* no --image and no input URI: sys.exit(1)
MissingInput ==
    /\ pc = "main"
    /\ ~single_image_mode
    /\ missing_input
    /\ pc' = "exited"
    /\ exit_code' = 1
    /\ UNCHANGED <<args, img, poses, any_violence, centers, heights, pairs, err,
                   streams, frames, rendered, call, ret>>

\* videoSource, videoOutput, videoOutput, then the loop is entered
OpenStreams ==
    /\ pc = "main"
    /\ ~single_image_mode
    /\ ~missing_input
    /\ streams' = [input |-> "streaming", display |-> "streaming",
                   record |-> "streaming"]
    /\ pc' = "capture"
    /\ UNCHANGED <<args, img, poses, any_violence, centers, heights, pairs, err,
                   exit_code, frames, rendered, call, ret>>

\* img = input_stream.Capture() returning a frame
CaptureFrame ==
    /\ pc = "capture"
    /\ img' = "frame"
    /\ pc' = "test_img"
    /\ UNCHANGED <<args, poses, any_violence, centers, heights, pairs, err,
                   exit_code, streams, frames, rendered, call, ret>>

\* img = input_stream.Capture() returning None (timeout)
CaptureTimeout ==
    /\ pc = "capture"
    /\ img' = "none"
    /\ pc' = "test_img"
    /\ UNCHANGED <<args, poses, any_violence, centers, heights, pairs, err,
                   exit_code, streams, frames, rendered, call, ret>>

ContinueBreaks ==
    /\ pc = "test_img"
    /\ img = "none"
    /\ pc' = "finished"
    /\ UNCHANGED <<args, img, poses, any_violence, centers, heights, pairs, err,
                   exit_code, streams, frames, rendered, call, ret>>

\* if img is None: continue
ContinueOnTimeout ==
    /\ pc = "test_img"
    /\ img = "none"
    /\ pc' = "capture"
    /\ UNCHANGED <<args, img, poses, any_violence, centers, heights, pairs, err,
                   exit_code, streams, frames, rendered, call, ret>>

\* net.Process, analyze_poses and the [FRAME] line
ProcessFrame ==
    /\ pc = "test_img"
    /\ img # "none"
    /\ frames' = Count(frames)
    /\ \E ps \in DetectorOutputs : poses' = ps /\ Analyze(ps, "render")
    /\ UNCHANGED <<args, img, streams, rendered, call, ret>>

\* display_out.Render, record_out.Render, display_out.SetStatus
Render ==
    /\ pc = "render"
    /\ rendered' = Count(rendered)
    /\ pc' = "check"
    /\ UNCHANGED <<args, img, poses, any_violence, centers, heights, pairs, err,
                   exit_code, streams, frames, call, ret>>

\* the three IsStreaming() queries and the break
CheckStreaming ==
    /\ pc = "check"
    /\ pc' = IF \/ streams.input # "streaming"
                \/ streams.display # "streaming"
                \/ streams.record # "streaming"
             THEN "finished"
             ELSE "capture"
    /\ UNCHANGED <<args, img, poses, any_violence, centers, heights, pairs, err,
                   exit_code, streams, frames, rendered, call, ret>>

\* the last line of the script, after which the interpreter exits with 0
Finished ==
    /\ pc = "finished"
    /\ pc' = "exited"
    /\ exit_code' = 0
    /\ UNCHANGED <<args, img, poses, any_violence, centers, heights, pairs, err,
                   streams, frames, rendered, call, ret>>

\* the environment: a source or sink stops streaming while the loop runs
StreamCloses ==
    /\ pc \in LoopPcs
    /\ \E s \in {"input", "display", "record"} :
          /\ streams[s] = "streaming"
          /\ streams' = [streams EXCEPT ![s] = "closed"]
    /\ UNCHANGED <<args, pc, img, poses, any_violence, centers, heights, pairs,
                   err, exit_code, frames, rendered, call, ret>>

ScriptStep ==
    \/ SingleImage
    \/ SaveImage
    \/ MissingInput
    \/ OpenStreams
    \/ CaptureFrame
    \/ CaptureTimeout
    \/ ContinueOnTimeout
    \/ ProcessFrame
    \/ Render
    \/ CheckStreaming
    \/ Finished

Next == ScriptStep \/ StreamCloses

Spec == Init /\ [][Next]_vars

\* the interpreter runs the script's next statement whenever there is one; what
\* Capture returns and whether a stream closes is left to the environment
FairSpec == Spec /\ WF_vars(ScriptStep)

(* ------------------- the analyzer's functions on their own ------------- *)

AnalyzerInit ==
    /\ args \in ArgSets({""}, {""})
    /\ pc = "test"
    /\ img = "frame"
    /\ poses \in PoseLists
    /\ any_violence = FALSE
    /\ centers = <<>>
    /\ heights = <<>>
    /\ pairs = <<>>
    /\ err = "none"
    /\ exit_code = -1
    /\ streams = Unopened
    /\ frames = 0
    /\ rendered = 0
    /\ call = NoCall
    /\ ret = 0

\* analyze_poses(poses)
CallAnalyzePoses ==
    /\ pc = "test"
    /\ call' = [fn |-> "analyze_poses", k |-> 0]
    /\ Analyze(poses, "returned")
    /\ UNCHANGED <<args, img, poses, streams, frames, rendered, ret>>

Direct(fn, k, r) ==
    /\ pc = "test"
    /\ call' = [fn |-> fn, k |-> k]
    /\ ret' = r.val
    /\ err' = r.err
    /\ pc' = IF r.err = "none" THEN "returned" ELSE "raised"
    /\ UNCHANGED <<args, img, poses, any_violence, centers, heights, pairs,
                   exit_code, streams, frames, rendered>>

\* person_center(poses[k])
CallPersonCenter ==
    \E k \in 1..Len(poses) : Direct("person_center", k, person_center(poses[k]))

\* person_height(poses[k])
CallPersonHeight ==
    \E k \in 1..Len(poses) : Direct("person_height", k, person_height(poses[k]))

AnalyzerNext == CallAnalyzePoses \/ CallPersonCenter \/ CallPersonHeight

AnalyzerSpec == AnalyzerInit /\ [][AnalyzerNext]_vars

(* ------------------------------ claims --------------------------------- *)

AnalyzeReturned == call.fn = "analyze_poses" /\ pc = "returned"

Flagged(p) == p.abs_flag \/ p.rel_flag

IsEmptyPose(p) == Len(p.Keypoints) = 0

\* the distance d is exactly the threshold t
OnThreshold(d, t) == t[1] >= 0 /\ d.sq * t[2] * t[2] = t[1] * t[1] * d.den * d.den

SamePoint(c1, c2) == c1.xn * c2.d = c2.xn * c1.d /\ c1.yn * c2.d = c2.yn * c1.d

\* C1: for a non-empty list of N poses analyze_poses evaluates exactly the
\* pairs (i, j) with 0 <= i < j < N, each once, and the verdict it returns is
\* true exactly when some evaluated pair has abs_flag or rel_flag set.
C1_AllPairsOnceAndOr ==
    (AnalyzeReturned /\ Len(poses) > 0) =>
        LET N == Len(poses)
        IN  /\ 2 * Len(pairs) = N * (N - 1)
            /\ {<<pairs[k].i, pairs[k].j>> : k \in 1..Len(pairs)}
                 = {q \in (0..(N - 1)) \X (0..(N - 1)) : q[1] < q[2]}
            /\ any_violence = (\E k \in 1..Len(pairs) : Flagged(pairs[k]))

\* three people, the verdict is true, and the last pair evaluated is not flagged
C1_Witness ==
    /\ AnalyzeReturned
    /\ Len(poses) = 3
    /\ Len(pairs) = 3
    /\ any_violence
    /\ ~Flagged(pairs[3])

\* C3 (as claimed): a call of person_center, person_height or analyze_poses
\* that is handed a pose with zero keypoints ends in an InvalidPoseError.
C3_EmptyPoseRejected ==
    LET handed == IF call.fn = "analyze_poses"
                  THEN \E k \in 1..Len(poses) : IsEmptyPose(poses[k])
                  ELSE call.fn # "none" /\ IsEmptyPose(poses[call.k])
    IN  handed => (pc = "raised" /\ err = "InvalidPoseError")

\* C4: for every pair evaluated the average height that divides the distance
\* is 1 when either height is not positive and the mean of the two heights
\* otherwise; it is never zero, and analyze_poses raises only when it was
\* handed a pose without keypoints.
C4_AvgHeightGuard ==
    (call.fn = "analyze_poses") =>
        /\ \A k \in 1..Len(pairs) :
              LET p == pairs[k]
                  hi == person_height(poses[p.i + 1]).val
                  hj == person_height(poses[p.j + 1]).val
              IN  /\ p.avg_h[1] # 0
                  /\ IF hi <= 0 \/ hj <= 0
                     THEN p.avg_h = <<1, 1>>
                     ELSE 2 * p.avg_h[1] = (hi + hj) * p.avg_h[2]
        /\ pc = "raised" => \E k \in 1..Len(poses) : IsEmptyPose(poses[k])

\* a pair with a one-keypoint person (height 0) and a pair of two people of
\* positive height were both evaluated
C4_Witness ==
    /\ AnalyzeReturned
    /\ \E k \in 1..Len(pairs) :
          /\ pairs[k].avg_h = <<1, 1>>
          /\ OneKeypoint \in {poses[pairs[k].i + 1], poses[pairs[k].j + 1]}
    /\ \E k \in 1..Len(pairs) : pairs[k].avg_h = <<6, 2>>

\* C5: abs_flag is set exactly when the absolute distance is strictly below
\* --distance and rel_flag exactly when the normalized distance is strictly
\* below --rel_threshold; a distance equal to its threshold sets no flag, and a
\* frame whose pairs all sit on both thresholds is not a violation.
C5_StrictThresholds ==
    AnalyzeReturned =>
        /\ \A k \in 1..Len(pairs) :
              LET p == pairs[k]
                  t == args.distance
                  r == args.rel_threshold
              IN  /\ p.abs_flag <=>
                        (t[1] > 0 /\ p.d_abs.sq * t[2] * t[2]
                                       < t[1] * t[1] * p.d_abs.den * p.d_abs.den)
                  /\ p.rel_flag <=>
                        (r[1] > 0 /\ p.d_rel.sq * r[2] * r[2]
                                       < r[1] * r[1] * p.d_rel.den * p.d_rel.den)
                  /\ OnThreshold(p.d_abs, t) => ~p.abs_flag
                  /\ OnThreshold(p.d_rel, r) => ~p.rel_flag
        /\ (\A k \in 1..Len(pairs) :
               /\ OnThreshold(pairs[k].d_abs, args.distance)
               /\ OnThreshold(pairs[k].d_rel, args.rel_threshold))
           => ~any_violence

\* a frame with a pair, every pair exactly on both thresholds
C5_Witness ==
    /\ AnalyzeReturned
    /\ Len(pairs) >= 1
    /\ \A k \in 1..Len(pairs) :
          /\ OnThreshold(pairs[k].d_abs, args.distance)
          /\ OnThreshold(pairs[k].d_rel, args.rel_threshold)
    /\ ~any_violence

HipAt(p, id) == {k \in 1..Len(p.Keypoints) : p.Keypoints[k].ID = id}

\* p with the left-hip entry and the right-hip entry in each other's place
SwapHips(p) ==
    IF HipAt(p, LEFT_HIP_ID) = {} \/ HipAt(p, RIGHT_HIP_ID) = {} THEN p
    ELSE LET a == CHOOSE k \in HipAt(p, LEFT_HIP_ID) : TRUE
             b == CHOOSE k \in HipAt(p, RIGHT_HIP_ID) : TRUE
         IN  Pose([k \in 1..Len(p.Keypoints) |->
                     IF k = a THEN p.Keypoints[b]
                     ELSE IF k = b THEN p.Keypoints[a]
                     ELSE p.Keypoints[k]])

\* C6: the center of a pose is the midpoint of the keypoints with IDs 11 and 12
\* when both are present and the mean of all keypoints otherwise, and two poses
\* that differ only in the places of the two hip entries get the same center.
C6_CenterByHipsOrMean ==
    AnalyzeReturned =>
        /\ \A n \in 1..Len(poses) :
              LET kps == poses[n].Keypoints
                  L == HipAt(poses[n], LEFT_HIP_ID)
                  R == HipAt(poses[n], RIGHT_HIP_ID)
                  c == centers[n]
              IN  IF L # {} /\ R # {}
                  THEN \E a \in L, b \in R :
                          /\ 2 * c.xn = (kps[a].x + kps[b].x) * c.d
                          /\ 2 * c.yn = (kps[a].y + kps[b].y) * c.d
                  ELSE /\ Len(kps) * c.xn = sum([k \in 1..Len(kps) |-> kps[k].x]) * c.d
                       /\ Len(kps) * c.yn = sum([k \in 1..Len(kps) |-> kps[k].y]) * c.d
        /\ \A m, n \in 1..Len(poses) :
              poses[n] = SwapHips(poses[m]) => SamePoint(centers[m], centers[n])

\* a pose, the same pose with its hip entries swapped, and a pose with one hip
C6_Witness ==
    /\ AnalyzeReturned
    /\ \E m, n \in 1..Len(poses) :
          /\ poses[m] # poses[n]
          /\ poses[n] = SwapHips(poses[m])
    /\ \E n \in 1..Len(poses) :
          /\ HipAt(poses[n], LEFT_HIP_ID) # {}
          /\ HipAt(poses[n], RIGHT_HIP_ID) = {}

\* C7: with fewer than two people there is no violation: an empty list returns
\* False with no centers, no heights and no pair evaluated, and a single pose
\* that analyze_poses returns for has no pair evaluated and the verdict False.
C7_FewerThanTwo ==
    (call.fn = "analyze_poses" /\ Len(poses) < 2) =>
        /\ pc = "returned" => (~any_violence /\ pairs = <<>>)
        /\ Len(poses) = 0 =>
              (pc = "returned" /\ centers = <<>> /\ heights = <<>> /\ pairs = <<>>)

\* a single person, analysed under the larger of the thresholds
C7_Witness ==
    /\ AnalyzeReturned
    /\ Len(poses) = 1
    /\ Len(centers) = 1
    /\ args.distance = <<5, 1>>
    /\ args.rel_threshold = <<3, 2>>

AnyStreamClosed == \E s \in DOMAIN streams : streams[s] = "closed"

\* C2 (as claimed, and granting an exit by exception): once a source or sink
\* has stopped streaming while the loop runs, the loop is eventually left.
C2_ClosedStreamEndsLoop ==
    (pc \in LoopPcs /\ AnyStreamClosed) ~> (pc \in {"finished", "exited", "raised"})

\* what an iteration whose capture returned no frame leaves alone
Quiet ==
    UNCHANGED <<poses, any_violence, centers, heights, pairs, err, exit_code,
                frames, rendered>>

\* C8: a capture that returns no frame changes nothing but the loop position:
\* no detection, analysis or rendering, no error and no exit, and the loop is
\* back at the capture; a capture that returns a frame is then processed.
C8_TimeoutIsTransient ==
    [][/\ (pc = "capture" /\ img' = "none") => Quiet
       /\ (pc = "test_img" /\ img = "none") =>
             (Quiet /\ img' = "none" /\ pc' \in {"test_img", "capture"})
       /\ (pc = "test_img" /\ img = "frame" /\ pc' # "test_img") =>
             (pc' \in {"render", "raised"} /\ frames' = Count(frames))]_vars

\* a capture has just timed out in a loop that rendered frames before
C8_Witness == pc = "test_img" /\ img = "none" /\ rendered >= 1 /\ err = "none"

\* C9: without --image and without an input URI the script exits with 1 and
\* no stream was opened nor the loop entered; with --image no stream is opened
\* and the loop is never entered, whatever the input URI, and the exit after
\* the image was saved is 0.
C9_ExitCodes ==
    /\ (args.image = "" /\ args.input = "") =>
          /\ pc \in {"main", "exited"}
          /\ streams = Unopened
          /\ frames = 0
          /\ pc = "exited" => exit_code = 1
    /\ args.image # "" =>
          /\ pc \notin LoopPcs \cup {"finished"}
          /\ streams = Unopened
          /\ rendered = 0
          /\ pc = "exited" => exit_code = 0

\* the script has exited with 1 for want of an input
C9_Witness ==
    /\ pc = "exited"
    /\ exit_code = 1
    /\ args.image = ""
    /\ args.input = ""

\* C10: what the script holds after a frame was analysed is a function of that
\* frame's poses and the two thresholds alone: one center and one height per
\* pose, in order, and the verdict of that frame's pairs.
C10_PerFrameOnly ==
    (err = "none" /\ frames >= 1) =>
        /\ Len(centers) = Len(poses)
        /\ Len(heights) = Len(poses)
        /\ \A k \in 1..Len(poses) :
              /\ centers[k] = person_center(poses[k]).val
              /\ heights[k] = person_height(poses[k]).val
        /\ any_violence =
              (\E i, j \in 0..(Len(poses) - 1) :
                  i < j /\ Flagged(pair_verdict(centers, heights, i, j)))

\* a second frame with two people and no violation has been analysed
C10_Witness ==
    /\ pc = "render"
    /\ frames >= 2
    /\ rendered >= 1
    /\ Len(poses) = 2
    /\ ~any_violence

====
